---- MODULE Spec2Model ----
(***************************************************************************)
(* A model of the packaging scripts of the repository:                     *)
(*   - InstallClient: start-package.py and modules/chess/start-package.py  *)
(*   - ArchiveBuilder: zip_directory of scripts/build-package.py           *)
(*   - Orchestrator / ManifestGenerator: main of scripts/build-package.py  *)
(*   - ComponentCompiler: compile_process of modules/chess/build.py        *)
(*   - WindowsArtifact: main of scripts/build-windows-artifact.py          *)
(* Each component has its own specification over the shared variables; the *)
(* variables of the other components stay at their idle values.            *)
(***************************************************************************)
EXTENDS Integers, Sequences, FiniteSets, TLC

VARIABLES
    \* ---- InstallClient (start-package.py, both versions)
    script,       \* which of the two scripts runs
    PACKAGE,      \* metadata['package']
    PUBLISHER,    \* metadata['publisher']
    NODE,         \* the node argument: Null (None) or <<node>>
    ic_pc,        \* position in the module-level code
    call,         \* which call of send_request is in progress: "new" | "install"
    conns,        \* one record per HTTPConnection created, in order
    requests,     \* the requests put on the wire, in order
    res,          \* status of the NewPackage response (0: none yet)
    resp,         \* status of the Install response (0: none yet)
    stdout,       \* what the script printed, in order
    exit_code,    \* process exit code: Null while running, else <<code>>
    metadata,     \* PKG_DIR/metadata.json as it is on disk
    pkg_dir_tree, \* the tree under PKG_DIR: path -> node
    target_zip,   \* parent_dir/target/<PKG_PUBLISHER>.zip: Null or <<archive>>
    encoded_zip_file, \* encoded_zip_file: Null until assigned, else <<text>>
    ic_raised,    \* the uncaught exception that ended the script: Null or <<name>>
    \* ---- ArchiveBuilder (zip_directory of scripts/build-package.py)
    tree,         \* the directory tree under directory_path: path -> node
    fs_mtime,     \* the modification time the filesystem reports for its nodes
    zcalls,       \* how many times zip_directory has run on the tree
    zip_contents, \* the archive the latest zip_directory call returned
    prev_contents, \* the archive the call before it returned
    \* ---- Orchestrator and ManifestGenerator (main of scripts/build-package.py)
    skip_build_frontend, \* args.skip_build_frontend
    packages_dir, \* the entries of kinode/packages: name -> kind of entry
    metadata_files, \* the metadata.json of each package directory, as it is on disk
    scandir,      \* the order in which os.scandir lists them
    main_pc,      \* position in main
    idx,          \* index of the current loop (frontends, scandir, results)
    frontend_runs, \* the frontends whose build.sh was run, with its return code, in order
    main_stdout,  \* what main printed, in order
    built,        \* the packages kit build was run for, with its return code, in order
    results,      \* results: (entry_path, zip_filename, zip_contents) per package
    bootstrapped_processes, \* the lines of the bootstrap table being built
    target_packages_dir, \* target/packages: whether it exists, and its files
    packages_zip, \* target/packages.zip: Null or <<contents>>
    written,      \* the files this run wrote, in order
    raised,       \* the exception that ended main: Null or <<exception>>
    \* ---- ComponentCompiler (compile_process of modules/chess/build.py)
    process,      \* os.path.basename(process_dir)
    src_files,    \* whether glob finds anything under process_dir/src
    wasm_state,   \* the final component before the call: "absent" | "older" | "newer"
    cp_pc,        \* position in compile_process
    cwd,          \* the current working directory of the interpreter
    commands,     \* the external commands run: argv, cwd and return code, in order
    outputs,      \* the files written, with the step that wrote each, in order
    cp_error,     \* the exception that left compile_process: Null or <<exception>>
    \* ---- Two compile_process runs in one interpreter, their steps interleaved
    pair_dirs,         \* the two process directories compiled: <<name, name>>
    pair_pc,      \* the position of each of the two runs
    pair_cwd,     \* the current working directory, one for the whole interpreter
    pair_files,   \* the files written: path -> the crate each was built from
    pair_commands, \* the external commands run: run, step, cwd and return code, in order
    \* ---- WindowsArtifact (main of scripts/build-windows-artifact.py)
    wa_args,      \* args: --exclude (in order) and --output, as given
    wa_cwd,       \* the working directory the script was started in
    wa_disk,      \* the files on disk, as absolute paths
    wa_pc,        \* position in main
    wa_excludes,  \* excludes: absolute paths, in order
    wa_walk,      \* the files os.walk has still to yield, in order
    wa_zipf,      \* the entries written to the output archive, in order
    wa_stdout,    \* what main printed, in order
    wa_exit       \* how main ended: Null while running, else <<outcome>>

icVars == <<script, PACKAGE, PUBLISHER, NODE, ic_pc, call, conns, requests,
            res, resp, stdout, exit_code, metadata, pkg_dir_tree, target_zip,
            encoded_zip_file, ic_raised>>

zipVars == <<tree, fs_mtime, zcalls, zip_contents, prev_contents>>

mainVars == <<skip_build_frontend, packages_dir, metadata_files, scandir, main_pc, idx,
              frontend_runs, main_stdout,
              built, results, bootstrapped_processes, target_packages_dir,
              packages_zip, written, raised>>

cpVars == <<process, src_files, wasm_state, cp_pc, cwd, commands, outputs, cp_error>>

pairVars == <<pair_dirs, pair_pc, pair_cwd, pair_files, pair_commands>>

waVars == <<wa_args, wa_cwd, wa_disk, wa_pc, wa_excludes, wa_walk, wa_zipf,
            wa_stdout, wa_exit>>

vars == <<icVars, zipVars, mainVars, cpVars, pairVars, waVars>>

\* What the request and response steps of the InstallClient leave alone.
icFiles == <<metadata, pkg_dir_tree, target_zip, encoded_zip_file, ic_raised>>

\* What each component leaves alone.
notInstall == <<zipVars, mainVars, cpVars, pairVars, waVars>>
notZip == <<icVars, mainVars, cpVars, pairVars, waVars>>
notMain == <<icVars, zipVars, cpVars, pairVars, waVars>>
notCompile == <<icVars, zipVars, mainVars, pairVars, waVars>>
notPair == <<icVars, zipVars, mainVars, cpVars, waVars>>
notArtifact == <<icVars, zipVars, mainVars, cpVars, pairVars>>

\* JSON null / Python None, and a present value, as sequences of length 0 and 1.
Null == <<>>
Some(x) == <<x>>

(***************************************************************************)
(*              ArchiveBuilder: zip_directory (build-package.py)           *)
(***************************************************************************)
\* Entry names; a path is a sequence of names below directory_path.
Names == {"a", "b"}
\* The tree holds at most MaxNodes directories and files.
MaxNodes == 3
\* zip_directory is run at most MaxZipCalls times on one tree.
MaxZipCalls == 2

RECURSIVE SeqsUpTo(_)
SeqsUpTo(n) == IF n = 0 THEN {<<>>}
               ELSE LET shorter == SeqsUpTo(n - 1)
                    IN shorter \cup {Append(q, x) : q \in shorter, x \in Names}
Paths == SeqsUpTo(MaxNodes) \ {<<>>}
Parent(p) == SubSeq(p, 1, Len(p) - 1)

\* st_mode of regular files (0o100644, 0o100755) and of directories (0o40755, 0o40700).
FileModes == {33188, 33261}
DirModes == {16877, 16832}
FileData == {"wasm bytes", "{json}"}
\* Modification times, as zipfile date_time tuples.
Mtimes == {<<2023, 6, 19, 0, 0, 0>>, <<2024, 2, 29, 12, 30, 58>>}

IsDir(t, p) == p = <<>> \/ (p \in DOMAIN t /\ t[p].kind = "dir")
IsFile(t, p) == p \in DOMAIN t /\ t[p].kind = "file"
Extend(t, p, node) == [q \in DOMAIN t \cup {p} |-> IF q = p THEN node ELSE t[q]]

Children(t, d) == {n \in {p[Len(p)] : p \in DOMAIN t} : Append(d, n) \in DOMAIN t}
\* The orders in which a scan may list the entries S of one directory.
PermsOf(S) == {o \in [1..Cardinality(S) -> S] : \A i, j \in DOMAIN o : o[i] = o[j] => i = j}
\* One listing per directory in ds, each in an order of the filesystem's choosing.
RECURSIVE OrdersOver(_, _)
OrdersOver(t, ds) ==
    IF ds = {} THEN {<<>>}
    ELSE LET d == CHOOSE x \in ds : TRUE
         IN {[x \in DOMAIN f \cup {d} |-> IF x = d THEN o ELSE f[x]] :
                f \in OrdersOver(t, ds \ {d}), o \in PermsOf(Children(t, d))}
ScanOrders(t) == OrdersOver(t, {d \in DOMAIN t \cup {<<>>} : IsDir(t, d)})

\* ZipInfo.external_attr is an unsigned 32-bit field; hi is its upper 16 bits
\* (what "<< 16" fills) and lo its lower 16 bits (what "| 0x10" sets).
Attr(hi, lo) == [hi |-> hi % 65536, lo |-> lo % 65536]

\* os.stat(file_path)
os_stat(t, mtime, p) == [st_mode |-> t[p].mode, st_mtime |-> mtime]

\* zi = zipfile.ZipInfo(arcname + '/'); permissions = 0o755;
\* zi.external_attr = permissions << 16 | 0x10; zi.date_time = (2023, 6, 19, 0, 0, 0)
\* zip_file.writestr(zi, '')
DirZipInfo(p) ==
    [ filename |-> Append(p, ""),
      external_attr |-> Attr(493, 16),
      date_time |-> <<2023, 6, 19, 0, 0, 0>>,
      data |-> "" ]

\* A file entry stamped with the file's modification time.
FileZipInfo_mtime(p, st, file_data) ==
    [ filename |-> p,
      external_attr |-> Attr(st.st_mode, 0),
      date_time |-> st.st_mtime,
      data |-> file_data ]

\* A file entry whose external_attr was never set from st_mode.
FileZipInfo_noattr(p, st, file_data) ==
    [ filename |-> p,
      external_attr |-> Attr(0, 0),
      date_time |-> <<2023, 6, 19, 0, 0, 0>>,
      data |-> file_data ]

\* zi = zipfile.ZipInfo(arcname); zi.external_attr = st.st_mode << 16;
\* zi.date_time = (2023, 6, 19, 0, 0, 0); zip_file.writestr(zi, file_data)
FileZipInfo(p, st, file_data) ==
    [ filename |-> p,
      external_attr |-> Attr(st.st_mode, 0),
      date_time |-> <<2023, 6, 19, 0, 0, 0>>,
      data |-> file_data ]

RECURSIVE Concat(_)
Concat(ss) == IF ss = <<>> THEN <<>> ELSE Head(ss) \o Concat(Tail(ss))

\* A bottom-up walk (os.walk with topdown=False): the entries of each
\* sub-directory are written before those of the directory itself.
RECURSIVE os_walk_bottomup(_, _, _, _)
os_walk_bottomup(t, order, mtime, d) ==
    LET listing == order[d]
        dirs == SelectSeq(listing, LAMBDA n : IsDir(t, Append(d, n)))
        files == SelectSeq(listing, LAMBDA n : IsFile(t, Append(d, n)))
        dir_entries == [i \in DOMAIN dirs |-> DirZipInfo(Append(d, dirs[i]))]
        file_entries == [i \in DOMAIN files |->
                           FileZipInfo(Append(d, files[i]),
                                       os_stat(t, mtime, Append(d, files[i])),
                                       t[Append(d, files[i])].data)]
    IN Concat([i \in DOMAIN dirs |-> os_walk_bottomup(t, order, mtime, Append(d, dirs[i]))])
       \o dir_entries \o file_entries

\* os.walk(directory_path), top-down: the entries written for directory d
\* (its sub-directories, then its files, in scan order), then those of each
\* sub-directory in turn.
RECURSIVE os_walk(_, _, _, _)
os_walk(t, order, mtime, d) ==
    LET listing == order[d]
        dirs == SelectSeq(listing, LAMBDA n : IsDir(t, Append(d, n)))
        files == SelectSeq(listing, LAMBDA n : IsFile(t, Append(d, n)))
        dir_entries == [i \in DOMAIN dirs |-> DirZipInfo(Append(d, dirs[i]))]
        file_entries == [i \in DOMAIN files |->
                           FileZipInfo(Append(d, files[i]),
                                       os_stat(t, mtime, Append(d, files[i])),
                                       t[Append(d, files[i])].data)]
    IN dir_entries \o file_entries \o
       Concat([i \in DOMAIN dirs |-> os_walk(t, order, mtime, Append(d, dirs[i]))])

zip_directory(t, order, mtime) == os_walk(t, order, mtime, <<>>)

IdleZip ==
    /\ tree = <<>>
    /\ fs_mtime = <<2023, 6, 19, 0, 0, 0>>
    /\ zcalls = 0
    /\ zip_contents = <<>>
    /\ prev_contents = <<>>

StartZip ==
    /\ tree = <<>>
    /\ fs_mtime \in Mtimes
    /\ zcalls = 0
    /\ zip_contents = <<>>
    /\ prev_contents = <<>>

\* The environment creates a directory before the archive is built.
Mkdir ==
    /\ zcalls = 0
    /\ Cardinality(DOMAIN tree) < MaxNodes
    /\ \E p \in Paths \ DOMAIN tree, mode \in DirModes :
          /\ IsDir(tree, Parent(p))
          /\ tree' = Extend(tree, p, [kind |-> "dir", mode |-> mode, data |-> ""])
    /\ UNCHANGED <<fs_mtime, zcalls, zip_contents, prev_contents>>
    /\ UNCHANGED notZip

\* The environment creates a file before the archive is built.
CreateFile ==
    /\ zcalls = 0
    /\ Cardinality(DOMAIN tree) < MaxNodes
    /\ \E p \in Paths \ DOMAIN tree, mode \in FileModes, data \in FileData :
          /\ IsDir(tree, Parent(p))
          /\ tree' = Extend(tree, p, [kind |-> "file", mode |-> mode, data |-> data])
    /\ UNCHANGED <<fs_mtime, zcalls, zip_contents, prev_contents>>
    /\ UNCHANGED notZip

\* The tree is checked out again or copied to another machine: same paths,
\* contents and modes, other modification times.
Touch ==
    /\ zcalls < MaxZipCalls
    /\ \E m \in Mtimes \ {fs_mtime} : fs_mtime' = m
    /\ UNCHANGED <<tree, zcalls, zip_contents, prev_contents>>
    /\ UNCHANGED notZip

\* zip_contents = zip_directory(directory_path), the scan listing each
\* directory in an order of the filesystem's choosing.
ZipDirectory ==
    /\ zcalls < MaxZipCalls
    /\ \E order \in ScanOrders(tree) :
          zip_contents' = zip_directory(tree, order, fs_mtime)
    /\ prev_contents' = zip_contents
    /\ zcalls' = zcalls + 1
    /\ UNCHANGED <<tree, fs_mtime>>
    /\ UNCHANGED notZip

NextZip ==
    \/ Mkdir
    \/ CreateFile
    \/ Touch
    \/ ZipDirectory

(***************************************************************************)
(*                             InstallClient                               *)
(***************************************************************************)
Scripts == {"start-package.py", "modules/chess/start-package.py"}
PackageNames == {"chess", "homepage"}
PublisherNames == {"uqbar.os", "sys"}
NodeArgs == {Null, Some("node1")}
\* The statuses the control endpoint may answer with.
Statuses == {200, 404, 500}
HTTP_OK == 200

\* f"{PACKAGE}:{PUBLISHER}"
PKG_PUBLISHER == <<PACKAGE, PUBLISHER>>

\* The URL path each script posts to.
rpc_path(s) == IF s = "start-package.py" THEN "/rpc/message" ELSE "/rpc:sys:uqbar/message"

\* The well-known target process of each script.
target_process(s) ==
    IF s = "start-package.py" THEN "app_tracker:app_tracker:uqbar" ELSE "main:app_store:uqbar"

\* ---- The metadata descriptor PKG_DIR/metadata.json
\* A descriptor as it is on disk: whether the file exists, whether json.load
\* parses it, and the fields of the parsed object.
Descriptor(exists, parses, fields) ==
    [exists |-> exists, parses |-> parses, fields |-> fields]
NoFields == [k \in {} |-> ""]
AbsentDescriptor == Descriptor(FALSE, FALSE, NoFields)
UnparsableDescriptor == Descriptor(TRUE, FALSE, NoFields)
ParsedDescriptors ==
    {Descriptor(TRUE, TRUE, f) :
        f \in UNION {{g \in [D -> PackageNames \cup PublisherNames] :
                        /\ "package" \in D => g["package"] \in PackageNames
                        /\ "publisher" \in D => g["publisher"] \in PublisherNames} :
                     D \in SUBSET {"package", "publisher"}}}
Descriptors == {AbsentDescriptor, UnparsableDescriptor} \cup ParsedDescriptors

\* with open(f"{PKG_DIR}/metadata.json", 'r') as f: metadata = json.load(f)
\* PACKAGE = metadata['package']; PUBLISHER = metadata['publisher']
\* The exception these lines raise, Null when they raise none.
load_metadata_error(md) ==
    IF ~md.exists THEN Some("FileNotFoundError")
    ELSE IF ~md.parses THEN Some("JSONDecodeError")
    ELSE IF "package" \notin DOMAIN md.fields THEN Some("KeyError: 'package'")
    ELSE IF "publisher" \notin DOMAIN md.fields THEN Some("KeyError: 'publisher'")
    ELSE Null

\* ---- The package directory PKG_DIR; file contents are byte sequences
MetadataBytes(md) == IF md.parses THEN <<123, 125>> ELSE <<123>>
WasmBytes == <<0, 97, 115, 109>>
WitBytes == <<119, 105>>
FileNode(data) == [kind |-> "file", mode |-> 33188, data |-> data]
DirNode == [kind |-> "dir", mode |-> 16877, data |-> <<>>]

\* The directories an upload is made of: chess.wasm next to metadata.json
\* (when the descriptor exists), alone or with a nested api/chess.wit.
PkgDirTrees(md) ==
    LET flat == [p \in {<<"chess.wasm">>} \cup
                        (IF md.exists THEN {<<"metadata.json">>} ELSE {}) |->
                    IF p = <<"metadata.json">> THEN FileNode(MetadataBytes(md))
                    ELSE FileNode(WasmBytes)]
    IN {flat, Extend(Extend(flat, <<"api">>, DirNode),
                     <<"api", "chess.wit">>, FileNode(WitBytes))}

\* ---- shutil.make_archive(zip_filename, 'zip', directory)
\* ZipFile.write builds each entry with ZipInfo.from_file: the entry takes the
\* modification time and the mode of the file; a directory gets a trailing
\* "/" and the directory flag.
from_file(p, st, isdir, file_data) ==
    [ filename |-> IF isdir THEN Append(p, "") ELSE p,
      external_attr |-> Attr(st.st_mode, IF isdir THEN 16 ELSE 0),
      date_time |-> st.st_mtime,
      data |-> file_data ]

\* The walk of shutil's zip writer: for each directory os.walk yields, its
\* sub-directories (sorted; a directory here has at most one), then its files
\* in listing order.
RECURSIVE make_zipfile_walk(_, _, _, _)
make_zipfile_walk(t, order, mtime, d) ==
    LET listing == order[d]
        dirnames == SelectSeq(listing, LAMBDA n : IsDir(t, Append(d, n)))
        filenames == SelectSeq(listing, LAMBDA n : IsFile(t, Append(d, n)))
        dir_entries == [i \in DOMAIN dirnames |->
                          from_file(Append(d, dirnames[i]),
                                    os_stat(t, mtime, Append(d, dirnames[i])), TRUE, <<>>)]
        file_entries == [i \in DOMAIN filenames |->
                           from_file(Append(d, filenames[i]),
                                     os_stat(t, mtime, Append(d, filenames[i])), FALSE,
                                     t[Append(d, filenames[i])].data)]
    IN dir_entries \o file_entries \o
       Concat([i \in DOMAIN dirnames |->
                  make_zipfile_walk(t, order, mtime, Append(d, dirnames[i]))])

\* The archive shutil.make_archive writes for the package directory.
make_archive(t, order, mtime) == make_zipfile_walk(t, order, mtime, <<>>)

\* ---- The bytes of the archive file, as open(..., 'rb').read() returns them
\* One byte per component of an entry's name.
NameByte(n) ==
    CASE n = "metadata.json" -> 109
      [] n = "chess.wasm" -> 99
      [] n = "api" -> 97
      [] n = "chess.wit" -> 119
      [] OTHER -> 47
\* An entry's bytes: its name, its date and time in the fields of the MS-DOS
\* format (years since 1980, seconds halved), its attributes, its data.
EntryBytes(e) ==
    [i \in DOMAIN e.filename |-> NameByte(e.filename[i])]
    \o << e.date_time[1] - 1980, e.date_time[2], e.date_time[3],
          e.date_time[4], e.date_time[5], e.date_time[6] \div 2,
          e.external_attr.hi % 256, e.external_attr.lo >>
    \o e.data
zip_bytes(archive) == Concat([i \in DOMAIN archive |-> EntryBytes(archive[i])])

\* ---- base64
\* The padding character '=', after the 64 characters 0..63 of the alphabet.
b64_pad == 64

\* The k-th character of the base64 text of the bytes b: three bytes make
\* four characters; a last group of one or two bytes is padded with '='.
b64char(b, k) ==
    LET g == (k - 1) \div 4
        j == (k - 1) % 4
        has2 == 3 * g + 2 <= Len(b)
        has3 == 3 * g + 3 <= Len(b)
        b1 == b[3 * g + 1]
        b2 == IF has2 THEN b[3 * g + 2] ELSE 0
        b3 == IF has3 THEN b[3 * g + 3] ELSE 0
    IN CASE j = 0 -> b1 \div 4
         [] j = 1 -> (b1 % 4) * 16 + b2 \div 16
         [] j = 2 -> IF has2 THEN (b2 % 16) * 4 + b3 \div 64 ELSE b64_pad
         [] j = 3 -> IF has3 THEN b3 % 64 ELSE b64_pad

\* A base64 encoder that leaves the padding out.
b64encode_nopad(b) ==
    [k \in 1..(4 * (Len(b) \div 3) + (IF Len(b) % 3 = 0 THEN 0 ELSE (Len(b) % 3) + 1)) |->
        b64char(b, k)]

\* base64.b64encode
b64encode(b) == [k \in 1..(4 * ((Len(b) + 2) \div 3)) |-> b64char(b, k)]

\* base64.b64encode(file.read()).decode('utf-8')
encode_file_in_base64(file_bytes) == b64encode(file_bytes)

new_package(s, package, publisher, node, zip_file) ==
    [ node |-> node,
      process |-> target_process(s),
      inherit |-> FALSE,
      expects_response |-> Null,
      ipc |-> [ command |-> IF s = "start-package.py" THEN "New" ELSE "NewPackage",
                package |-> <<package, publisher>>,
                mirror |-> IF s = "start-package.py" THEN Null ELSE Some(TRUE) ],
      metadata |-> Null,
      context |-> Null,
      mime |-> Some("application/zip"),
      data |-> Some(zip_file) ]

install_package(s, package, publisher, node) ==
    [ node |-> node,
      process |-> target_process(s),
      inherit |-> FALSE,
      expects_response |-> Null,
      ipc |-> [ command |-> "Install",
                package |-> <<package, publisher>>,
                mirror |-> Null ],
      metadata |-> Null,
      context |-> Null,
      mime |-> Null,
      data |-> Null ]

\* What print() shows of its arguments.  An http.client.HTTPResponse object
\* prints as its default repr, which shows neither status nor package.
Line(text, pair, status) == [text |-> text, pair |-> pair, status |-> status]
\* A line's pair and status are Null when the line does not show them.

\* start-package.py:111 prints the response object; the chess script prints res.status.
new_package_failure_line(s, status) ==
    Line("Failed to send new package request", Null,
         IF s = "start-package.py" THEN Null ELSE Some(status))

install_failure_line(s, status) ==
    Line("Failed to send install package request", Null,
         IF s = "start-package.py" THEN Null ELSE Some(status))

success_line(pair) == Line("Successfully installed package", pair, Null)

\* Whether the script exits after a failed NewPackage: start-package.py:112 has
\* the sys.exit(1) commented out, modules/chess/start-package.py:113 has it.
exits_on_new_package_failure(s) == s = "modules/chess/start-package.py"

\* A send_request that returns without closing its connection.
conn_close_leak(cs, i) == cs

\* conn.close()
conn_close(cs, i) == [cs EXCEPT ![i] = "closed"]

\* The InstallClient before any script is started (the other components run).
IdleInstall ==
    /\ script = "start-package.py"
    /\ PACKAGE = "chess"
    /\ PUBLISHER = "uqbar.os"
    /\ NODE = Null
    /\ ic_pc = "not started"
    /\ call = "new"
    /\ conns = <<>>
    /\ requests = <<>>
    /\ res = 0
    /\ resp = 0
    /\ stdout = <<>>
    /\ exit_code = Null
    /\ metadata = AbsentDescriptor
    /\ pkg_dir_tree = <<>>
    /\ target_zip = Null
    /\ encoded_zip_file = Null
    /\ ic_raised = Null

StartInstall ==
    /\ script \in Scripts
    \* PACKAGE and PUBLISHER are not assigned yet.
    /\ PACKAGE = ""
    /\ PUBLISHER = ""
    /\ metadata \in Descriptors
    /\ pkg_dir_tree \in PkgDirTrees(metadata)
    /\ target_zip = Null
    /\ encoded_zip_file = Null
    /\ ic_raised = Null
    /\ NODE \in NodeArgs
    \* start-package.py takes the node as a required argument; for the chess
    \* script it is optional (None when absent).
    /\ script = "start-package.py" => NODE # Null
    /\ ic_pc = "load_metadata"
    /\ call = "new"
    /\ conns = <<>>
    /\ requests = <<>>
    /\ res = 0
    /\ resp = 0
    /\ stdout = <<>>
    /\ exit_code = Null

\* The metadata descriptor is opened, parsed and its two fields read; an
\* exception of any of these is not caught and ends the script with code 1.
\* Otherwise print(PKG_PUBLISHER).
LoadMetadata ==
    /\ ic_pc = "load_metadata"
    /\ IF load_metadata_error(metadata) # Null
       THEN /\ ic_raised' = load_metadata_error(metadata)
            /\ ic_pc' = "exited"
            /\ exit_code' = Some(1)
            /\ UNCHANGED <<PACKAGE, PUBLISHER, stdout>>
       ELSE /\ PACKAGE' = metadata.fields["package"]
            /\ PUBLISHER' = metadata.fields["publisher"]
            /\ stdout' = Append(stdout, Line("pkg_publisher",
                                             <<metadata.fields["package"],
                                               metadata.fields["publisher"]>>, Null))
            /\ ic_pc' = "make_archive"
            /\ UNCHANGED <<ic_raised, exit_code>>
    /\ UNCHANGED <<script, NODE, call, conns, requests, res, resp, metadata,
                   pkg_dir_tree, target_zip, encoded_zip_file>>
    /\ UNCHANGED notInstall

\* zip_directory(PKG_DIR, zip_filename): shutil.make_archive writes
\* parent_dir/target/<PKG_PUBLISHER>.zip from the tree as the filesystem lists
\* it, with the modification times the filesystem reports.
MakeArchive ==
    /\ ic_pc = "make_archive"
    /\ \E order \in ScanOrders(pkg_dir_tree), mtime \in Mtimes :
          target_zip' = Some(make_archive(pkg_dir_tree, order, mtime))
    /\ ic_pc' = "encode"
    /\ UNCHANGED <<script, PACKAGE, PUBLISHER, NODE, call, conns, requests, res, resp,
                   stdout, exit_code, metadata, pkg_dir_tree, encoded_zip_file, ic_raised>>
    /\ UNCHANGED notInstall

\* encoded_zip_file = encode_file_in_base64(zip_filename + '.zip')
EncodeZipFile ==
    /\ ic_pc = "encode"
    /\ \E file_bytes \in {zip_bytes(target_zip[1])} :
          encoded_zip_file' = Some(encode_file_in_base64(file_bytes))
    /\ ic_pc' = "new_package"
    /\ UNCHANGED <<script, PACKAGE, PUBLISHER, NODE, call, conns, requests, res, resp,
                   stdout, exit_code, metadata, pkg_dir_tree, target_zip, ic_raised>>
    /\ UNCHANGED notInstall

\* new_pkg = new_package(...); send_request: conn = HTTPConnection(HOST, PORT)
NewPackageCall ==
    /\ ic_pc = "new_package"
    /\ call' = "new"
    /\ conns' = Append(conns, "created")
    /\ ic_pc' = "request"
    /\ UNCHANGED <<script, PACKAGE, PUBLISHER, NODE, requests, res, resp, stdout, exit_code>>
    /\ UNCHANGED icFiles
    /\ UNCHANGED notInstall

\* install_pkg = install_package(...); send_request: conn = HTTPConnection(HOST, PORT)
InstallCall ==
    /\ ic_pc = "install_package"
    /\ call' = "install"
    /\ conns' = Append(conns, "created")
    /\ ic_pc' = "request"
    /\ UNCHANGED <<script, PACKAGE, PUBLISHER, NODE, requests, res, resp, stdout, exit_code>>
    /\ UNCHANGED icFiles
    /\ UNCHANGED notInstall

\* The body send_request was called with.
json_data ==
    IF call = "new"
    THEN new_package(script, PACKAGE, PUBLISHER, NODE, encoded_zip_file[1])
    ELSE install_package(script, PACKAGE, PUBLISHER, NODE)

\* conn.request("POST", path, json_data, headers): connects and sends.
ConnRequest ==
    /\ ic_pc = "request"
    /\ conns' = [conns EXCEPT ![Len(conns)] = "open"]
    /\ requests' = Append(requests, [method |-> "POST", path |-> rpc_path(script),
                                     body |-> json_data])
    /\ ic_pc' = "getresponse"
    /\ UNCHANGED <<script, PACKAGE, PUBLISHER, NODE, call, res, resp, stdout, exit_code>>
    /\ UNCHANGED icFiles
    /\ UNCHANGED notInstall

\* conn.request raises (connection refused): the exception is not caught, the
\* interpreter prints a traceback on stderr and exits with code 1.
ConnRequestRaises ==
    /\ ic_pc = "request"
    /\ ic_pc' = "exited"
    /\ exit_code' = Some(1)
    /\ ic_raised' = Some("ConnectionRefusedError")
    /\ UNCHANGED <<script, PACKAGE, PUBLISHER, NODE, call, conns, requests, res, resp, stdout>>
    /\ UNCHANGED <<metadata, pkg_dir_tree, target_zip, encoded_zip_file>>
    /\ UNCHANGED notInstall

\* response = conn.getresponse()
GetResponse ==
    /\ ic_pc = "getresponse"
    /\ \E status \in Statuses :
          IF call = "new"
          THEN res' = status /\ resp' = resp
          ELSE resp' = status /\ res' = res
    /\ ic_pc' = "close"
    /\ UNCHANGED <<script, PACKAGE, PUBLISHER, NODE, call, conns, requests, stdout, exit_code>>
    /\ UNCHANGED icFiles
    /\ UNCHANGED notInstall

\* conn.close(); return response
ConnClose ==
    /\ ic_pc = "close"
    /\ conns' = conn_close(conns, Len(conns))
    /\ ic_pc' = IF call = "new" THEN "check_res" ELSE "check_resp"
    /\ UNCHANGED <<script, PACKAGE, PUBLISHER, NODE, call, requests, res, resp, stdout, exit_code>>
    /\ UNCHANGED icFiles
    /\ UNCHANGED notInstall

\* if not res.status == 200: print(...); sys.exit(1)   (the exit only where the script has it)
CheckRes ==
    /\ ic_pc = "check_res"
    /\ IF res # HTTP_OK
       THEN /\ stdout' = Append(stdout, new_package_failure_line(script, res))
            /\ IF exits_on_new_package_failure(script)
               THEN ic_pc' = "exited" /\ exit_code' = Some(1)
               ELSE ic_pc' = "install_package" /\ exit_code' = exit_code
       ELSE /\ stdout' = stdout
            /\ ic_pc' = "install_package"
            /\ exit_code' = exit_code
    /\ UNCHANGED <<script, PACKAGE, PUBLISHER, NODE, call, conns, requests, res, resp>>
    /\ UNCHANGED icFiles
    /\ UNCHANGED notInstall

\* if not resp.status == 200: print(...); sys.exit(1)
\* print("Successfully installed package: ", PKG_PUBLISHER ...); sys.exit(0)
CheckResp ==
    /\ ic_pc = "check_resp"
    /\ IF resp # HTTP_OK
       THEN /\ stdout' = Append(stdout, install_failure_line(script, resp))
            /\ exit_code' = Some(1)
       ELSE /\ stdout' = Append(stdout, success_line(PKG_PUBLISHER))
            /\ exit_code' = Some(0)
    /\ ic_pc' = "exited"
    /\ UNCHANGED <<script, PACKAGE, PUBLISHER, NODE, call, conns, requests, res, resp>>
    /\ UNCHANGED icFiles
    /\ UNCHANGED notInstall

NextInstall ==
    \/ LoadMetadata
    \/ MakeArchive
    \/ EncodeZipFile
    \/ NewPackageCall
    \/ ConnRequest
    \/ ConnRequestRaises
    \/ GetResponse
    \/ ConnClose
    \/ CheckRes
    \/ InstallCall
    \/ CheckResp

(***************************************************************************)
(*      Orchestrator and ManifestGenerator: main (build-package.py)        *)
(***************************************************************************)
\* The names an entry of kinode/packages may have.
PackageDirs == {"app_store", "chess", "homepage"}
\* What an entry of kinode/packages is: a plain file, a directory without
\* 'pkg', or a directory in which 'pkg' exists.
EntryKinds == {"file", "dir", "dir with pkg"}

core_frontends == <<"src/register-ui", "packages/app_store/ui", "packages/homepage/ui">>

\* f'{os.path.basename(entry_path)}.zip'
zip_filename_of(name) ==
    CASE name = "app_store" -> "app_store.zip"
      [] name = "chess" -> "chess.zip"
      [] name = "homepage" -> "homepage.zip"

entry_path_of(name) == <<"kinode", "packages", name>>
zip_path_of(zip_filename) == <<"target", "packages", zip_filename>>
\* os.path.join(entry_path, 'metadata.json')
metadata_path_of(entry_path) == Append(entry_path, "metadata.json")

\* The 'pkg' directory kit build leaves behind: pkg/api/ holding one file, and
\* one file in pkg itself.
PkgTree ==
    [q \in {<<"a">>, <<"a", "b">>, <<"b">>} |->
        IF q = <<"a">> THEN [kind |-> "dir", mode |-> 16877, data |-> ""]
        ELSE [kind |-> "file", mode |-> 33188, data |-> "wasm bytes"]]

\* The lines of the generated table.
TableLine(kind, zip_filename, metadata_path, zip_path) ==
    [line |-> kind, zip_filename |-> zip_filename, metadata_path |-> metadata_path,
     zip_path |-> zip_path]
HeaderLine == TableLine("pub static BOOTSTRAPPED_PROCESSES: &[(&str, &[u8], &[u8])] = &[", "", <<>>, <<>>)
FooterLine == TableLine("];", "", <<>>, <<>>)
EntryLine(zip_filename, metadata_path, zip_path) ==
    TableLine("(zip_filename, include_bytes!(metadata_path), include_bytes!(zip_path)),",
              zip_filename, metadata_path, zip_path)

\* A walk of target/packages that misses the table file.
DirTree_without_table(files) ==
    [q \in {<<n>> : n \in DOMAIN files \ {"bootstrapped_processes.rs"}} |->
        [kind |-> "file", mode |-> 33188, data |-> files[q[1]]]]

\* target/packages as the tree zip_directory walks: one file per name.
DirTree(files) ==
    [q \in {<<n>> : n \in DOMAIN files} |->
        [kind |-> "file", mode |-> 33188, data |-> files[q[1]]]]

WriteFile(files, name, contents) ==
    [n \in DOMAIN files \cup {name} |-> IF n = name THEN contents ELSE files[n]]

Exception(message, about) == [message |-> message, about |-> about]

\* What main prints about a frontend (or about none).
MainLine(text, frontend) == [text |-> text, frontend |-> frontend]

\* A frontend loop that goes on although build.sh failed.
frontend_failed_ignore(returncode) == FALSE

\* if result.returncode != 0: raise Exception(f'Failed to build frontend: {frontend}')
frontend_failed(returncode) == returncode # 0

\* A build that goes on to archive the package although kit build failed.
build_failed_ignore(returncode) == FALSE

\* if result.returncode != 0: raise Exception(...)
build_failed(returncode) == returncode # 0

\* Entries whose 'pkg' check is skipped: every directory counts as a package.
is_package_any_dir(kind) == kind # "file"

\* entry.is_dir() and (entry_path / 'pkg').exists()
is_package(kind) == kind = "dir with pkg"

\* The conditions a package directory's descriptor may be in: absent, present
\* but unparsable, or complete.  main never opens the file, so a descriptor
\* that parses but lacks a field behaves as the unparsable one does.
MainDescriptors ==
    {AbsentDescriptor, UnparsableDescriptor,
     Descriptor(TRUE, TRUE, [k \in {"package", "publisher"} |->
                                IF k = "package" THEN "chess" ELSE "sys"])}

IdleMain ==
    /\ skip_build_frontend = FALSE
    /\ packages_dir = <<>>
    /\ metadata_files = <<>>
    /\ scandir = <<>>
    /\ main_pc = "not started"
    /\ idx = 1
    /\ frontend_runs = <<>>
    /\ main_stdout = <<>>
    /\ built = <<>>
    /\ results = <<>>
    /\ bootstrapped_processes = <<>>
    /\ target_packages_dir = [exists |-> FALSE, files |-> <<>>]
    /\ packages_zip = Null
    /\ written = <<>>
    /\ raised = Null

\* What an earlier run may have left in target/packages.
StaleTargets ==
    {[exists |-> FALSE, files |-> <<>>], [exists |-> TRUE, files |-> <<>>]}
    \cup {[exists |-> TRUE, files |-> [n \in {"chess.zip"} |-> <<>>]]}

StartMain ==
    /\ skip_build_frontend \in BOOLEAN
    /\ \E present \in SUBSET PackageDirs :
          /\ packages_dir \in [present -> EntryKinds]
          /\ metadata_files \in [{n \in present : packages_dir[n] = "dir with pkg"}
                                   -> MainDescriptors]
          /\ scandir \in PermsOf(present)
    /\ main_pc = "frontends"
    /\ idx = 1
    /\ frontend_runs = <<>>
    /\ main_stdout = <<>>
    /\ built = <<>>
    /\ results = <<>>
    /\ bootstrapped_processes = <<>>
    /\ target_packages_dir \in StaleTargets
    /\ packages_zip = Null
    /\ written = <<>>
    /\ raised = Null

\* if args.skip_build_frontend: print("skipping frontend builds")
SkipFrontends ==
    /\ main_pc = "frontends"
    /\ skip_build_frontend
    /\ main_pc' = "scandir"
    /\ main_stdout' = Append(main_stdout, MainLine("skipping frontend builds", ""))
    /\ UNCHANGED <<skip_build_frontend, packages_dir, scandir, idx, frontend_runs, built,
                   results, bootstrapped_processes, target_packages_dir, packages_zip,
                   written, raised>>
    /\ UNCHANGED metadata_files
    /\ UNCHANGED notMain

\* One iteration of "for frontend in core_frontends": the build script is
\* missing (warning, continue), or it is run and exits with returncode.
BuildFrontend ==
    /\ main_pc = "frontends"
    /\ ~skip_build_frontend
    /\ idx <= Len(core_frontends)
    /\ \E script_exists \in BOOLEAN, returncode \in {0, 1} :
          IF ~script_exists
          THEN /\ main_stdout' = Append(main_stdout,
                                        MainLine("Build script not found for frontend",
                                                 core_frontends[idx]))
               /\ idx' = idx + 1
               /\ UNCHANGED <<frontend_runs, main_pc, raised>>
          ELSE /\ frontend_runs' = Append(frontend_runs,
                                          [frontend |-> core_frontends[idx],
                                           returncode |-> returncode])
               /\ main_stdout' = main_stdout
               /\ IF frontend_failed(returncode)
                  THEN /\ raised' = Some(Exception("Failed to build frontend",
                                                   <<core_frontends[idx]>>))
                       /\ main_pc' = "raised"
                       /\ idx' = idx
                  ELSE /\ idx' = idx + 1
                       /\ UNCHANGED <<main_pc, raised>>
    /\ UNCHANGED <<skip_build_frontend, packages_dir, scandir, built, results,
                   bootstrapped_processes, target_packages_dir, packages_zip, written>>
    /\ UNCHANGED metadata_files
    /\ UNCHANGED notMain

\* The frontend loop is over: features = get_features(args); results = []
FrontendsDone ==
    /\ main_pc = "frontends"
    /\ ~skip_build_frontend
    /\ idx > Len(core_frontends)
    /\ main_pc' = "scandir"
    /\ idx' = 1
    /\ UNCHANGED <<skip_build_frontend, packages_dir, scandir, frontend_runs, built, results,
                   bootstrapped_processes, target_packages_dir, packages_zip, written, raised>>
    /\ UNCHANGED <<metadata_files, main_stdout>>
    /\ UNCHANGED notMain

\* One iteration of "for entry in os.scandir(packages_dir)" that continues:
\* the entry is no directory, or has no 'pkg'.
ScanSkip ==
    /\ main_pc = "scandir"
    /\ idx <= Len(scandir)
    /\ ~is_package(packages_dir[scandir[idx]])
    /\ idx' = idx + 1
    /\ UNCHANGED <<skip_build_frontend, packages_dir, scandir, main_pc, frontend_runs, built,
                   results, bootstrapped_processes, target_packages_dir, packages_zip,
                   written, raised>>
    /\ UNCHANGED <<metadata_files, main_stdout>>
    /\ UNCHANGED notMain

\* One iteration that calls build_and_zip_package: kit build runs and exits
\* with returncode; on failure the exception leaves main, otherwise the 'pkg'
\* directory is archived and the result appended.
BuildAndZipPackage ==
    /\ main_pc = "scandir"
    /\ idx <= Len(scandir)
    /\ is_package(packages_dir[scandir[idx]])
    /\ \E returncode \in {0, 1}, order \in ScanOrders(PkgTree), mtime \in Mtimes :
          /\ built' = Append(built, [name |-> scandir[idx], returncode |-> returncode])
          /\ IF build_failed(returncode)
             THEN /\ raised' = Some(Exception("Failed to build package at",
                                              entry_path_of(scandir[idx])))
                  /\ main_pc' = "raised"
                  /\ UNCHANGED <<idx, results>>
             ELSE /\ results' = Append(results,
                                       <<entry_path_of(scandir[idx]),
                                         zip_filename_of(scandir[idx]),
                                         zip_directory(PkgTree, order, mtime)>>)
                  /\ idx' = idx + 1
                  /\ UNCHANGED <<main_pc, raised>>
    /\ UNCHANGED <<skip_build_frontend, packages_dir, scandir, frontend_runs,
                   bootstrapped_processes, target_packages_dir, packages_zip, written>>
    /\ UNCHANGED <<metadata_files, main_stdout>>
    /\ UNCHANGED notMain

\* After the scan: the table's first line, and target/packages is created
\* unless it exists.
PrepareTarget ==
    /\ main_pc = "scandir"
    /\ idx > Len(scandir)
    /\ bootstrapped_processes' = <<HeaderLine>>
    /\ target_packages_dir' = [target_packages_dir EXCEPT !.exists = TRUE]
    /\ main_pc' = "results"
    /\ idx' = 1
    /\ UNCHANGED <<skip_build_frontend, packages_dir, scandir, frontend_runs, built, results,
                   packages_zip, written, raised>>
    /\ UNCHANGED <<metadata_files, main_stdout>>
    /\ UNCHANGED notMain

\* One iteration of "for (entry_path, zip_filename, zip_contents) in results":
\* the archive is written to target/packages and its line appended to the table.
WriteZip ==
    /\ main_pc = "results"
    /\ idx <= Len(results)
    /\ LET entry_path == results[idx][1]
           zip_filename == results[idx][2]
           contents == results[idx][3]
       IN /\ target_packages_dir' =
                [target_packages_dir EXCEPT
                    !.files = WriteFile(target_packages_dir.files, zip_filename, contents)]
          /\ written' = Append(written, zip_path_of(zip_filename))
          /\ bootstrapped_processes' =
                Append(bootstrapped_processes,
                       EntryLine(zip_filename, metadata_path_of(entry_path),
                                 zip_path_of(zip_filename)))
    /\ idx' = idx + 1
    /\ UNCHANGED <<skip_build_frontend, packages_dir, scandir, main_pc, frontend_runs, built,
                   results, packages_zip, raised>>
    /\ UNCHANGED <<metadata_files, main_stdout>>
    /\ UNCHANGED notMain

\* bootstrapped_processes.append('];') and the table file is written.
WriteTable ==
    /\ main_pc = "results"
    /\ idx > Len(results)
    /\ bootstrapped_processes' = Append(bootstrapped_processes, FooterLine)
    /\ target_packages_dir' =
          [target_packages_dir EXCEPT
              !.files = WriteFile(target_packages_dir.files, "bootstrapped_processes.rs",
                                  Append(bootstrapped_processes, FooterLine))]
    /\ written' = Append(written, zip_path_of("bootstrapped_processes.rs"))
    /\ main_pc' = "packages.zip"
    /\ UNCHANGED <<skip_build_frontend, packages_dir, scandir, idx, frontend_runs, built,
                   results, packages_zip, raised>>
    /\ UNCHANGED <<metadata_files, main_stdout>>
    /\ UNCHANGED notMain

\* zip_contents = zip_directory(target_packages_dir), written to target/packages.zip
WritePackagesZip ==
    /\ main_pc = "packages.zip"
    /\ \E order \in ScanOrders(DirTree(target_packages_dir.files)), mtime \in Mtimes :
          packages_zip' = Some(zip_directory(DirTree(target_packages_dir.files), order, mtime))
    /\ written' = Append(written, <<"target", "packages.zip">>)
    /\ main_pc' = "done"
    /\ UNCHANGED <<skip_build_frontend, packages_dir, scandir, idx, frontend_runs, built,
                   results, bootstrapped_processes, target_packages_dir, raised>>
    /\ UNCHANGED <<metadata_files, main_stdout>>
    /\ UNCHANGED notMain

NextMain ==
    \/ SkipFrontends
    \/ BuildFrontend
    \/ FrontendsDone
    \/ ScanSkip
    \/ BuildAndZipPackage
    \/ PrepareTarget
    \/ WriteZip
    \/ WriteTable
    \/ WritePackagesZip

(***************************************************************************)
(*        ComponentCompiler: compile_process (modules/chess/build.py)      *)
(***************************************************************************)
\* A path or a command word is a sequence of string fragments: the process
\* name a path is built from stays visible in it.
ProcessNames == {"chess", "chess_engine", "tictactoe"}
\* The exit statuses an external tool may end with.
ReturnCodes == {0, 1, 101}

root_dir == <<"root">>
pkg_dir == root_dir \o <<"pkg">>
process_dir_of(name) == root_dir \o <<name>>
\* os.path.join(pkg_dir, os.path.basename(process_dir) + ".wasm")
wasm_path_of(name) == pkg_dir \o <<name, ".wasm">>
\* os.path.join(process_dir, "target", "bindings", os.path.basename(process_dir))
bindings_dir_of(name) == process_dir_of(name) \o <<"target", "bindings", name>>
\* os.path.join(process_dir, "target", "wasm32-wasi", "release", basename + ".wasm")
wasm_file_of(name) == process_dir_of(name) \o <<"target", "wasm32-wasi", "release", name, ".wasm">>
\* wasm_file.replace(".wasm", "_adapted.wasm")
adapted_wasm_file_of(name) ==
    [i \in DOMAIN wasm_file_of(name) |->
        IF wasm_file_of(name)[i] = ".wasm" THEN "_adapted.wasm" ELSE wasm_file_of(name)[i]]

\* The argument lists of the four check_call invocations.
wit_cmd(name) ==
    << <<"wasm-tools">>, <<"component">>, <<"wit">>, root_dir \o <<"wit">>,
       <<"-o">>, bindings_dir_of(name) \o <<"target.wasm">>, <<"--wasm">> >>
cargo_cmd(name) ==
    << <<"cargo">>, <<"+nightly">>, <<"build">>, <<"--release">>,
       <<"--no-default-features">>, <<"--target">>, <<"wasm32-wasi">> >>
adapt_cmd(name) ==
    << <<"wasm-tools">>, <<"component">>, <<"new">>, wasm_file_of(name),
       <<"-o">>, adapted_wasm_file_of(name),
       <<"--adapt">>, root_dir \o <<"wasi_snapshot_preview1.wasm">> >>
embed_cmd(name) ==
    << <<"wasm-tools">>, <<"component">>, <<"embed">>, root_dir \o <<"wit">>,
       <<"--world">>, <<"process">>, adapted_wasm_file_of(name),
       <<"-o">>, wasm_path_of(name) >>

\* subprocess.check_call raises CalledProcessError(returncode, cmd) on a
\* non-zero exit status; the exception carries exactly these two.
CalledProcessError(returncode, cmd) ==
    [type |-> "CalledProcessError", returncode |-> returncode, cmd |-> cmd]
\* max() of an empty sequence
ValueError == [type |-> "ValueError", returncode |-> 0, cmd |-> <<>>]

Ran(step, cmd, returncode) ==
    [step |-> step, cmd |-> cmd, cwd |-> cwd, returncode |-> returncode]
Wrote(step, path) == [step |-> step, path |-> path]

IdleCompile ==
    /\ process = "chess"
    /\ src_files = TRUE
    /\ wasm_state = "absent"
    /\ cp_pc = "not started"
    /\ cwd = root_dir
    /\ commands = <<>>
    /\ outputs = <<>>
    /\ cp_error = Null

StartCompile ==
    /\ process \in ProcessNames
    /\ src_files \in BOOLEAN
    /\ wasm_state \in {"absent", "older", "newer"}
    /\ cp_pc = "staleness"
    /\ cwd = root_dir
    /\ commands = <<>>
    /\ outputs = <<>>
    /\ cp_error = Null

\* src_mtime = max(os.path.getmtime(f) for f in glob.glob(src/**)); wasm_mtime = ...
\* max() raises ValueError when the glob finds nothing; the two times are
\* not used afterwards.
Staleness ==
    /\ cp_pc = "staleness"
    /\ IF src_files
       THEN cp_pc' = "chdir" /\ cp_error' = cp_error
       ELSE cp_pc' = "raised" /\ cp_error' = Some(ValueError)
    /\ UNCHANGED <<process, src_files, wasm_state, cwd, commands, outputs>>
    /\ UNCHANGED notCompile

\* os.chdir(process_dir); os.makedirs(bindings_dir, exist_ok=True)
Chdir ==
    /\ cp_pc = "chdir"
    /\ cwd' = process_dir_of(process)
    /\ cp_pc' = "wit"
    /\ UNCHANGED <<process, src_files, wasm_state, commands, outputs, cp_error>>
    /\ UNCHANGED notCompile

\* One check_call: the tool runs and exits with returncode; a non-zero status
\* raises, otherwise the step's files are written and the next step follows.
CheckCall(step, cmd, files, next) ==
    /\ cp_pc = step
    /\ \E returncode \in ReturnCodes :
          /\ commands' = Append(commands, Ran(step, cmd, returncode))
          /\ IF returncode # 0
             THEN /\ cp_error' = Some(CalledProcessError(returncode, cmd))
                  /\ cp_pc' = "raised"
                  /\ outputs' = outputs
             ELSE /\ outputs' = outputs \o [i \in DOMAIN files |-> Wrote(step, files[i])]
                  /\ cp_pc' = next
                  /\ cp_error' = cp_error
    /\ UNCHANGED <<process, src_files, wasm_state, cwd>>
    /\ UNCHANGED notCompile

\* Step 1: wasm-tools component wit -> bindings/target.wasm; copytree of wit;
\* the empty world file.
StageBindings ==
    CheckCall("wit", wit_cmd(process),
              << bindings_dir_of(process) \o <<"target.wasm">>,
                 bindings_dir_of(process) \o <<"wit">>,
                 bindings_dir_of(process) \o <<"world">> >>,
              "cargo")

\* Step 2: cargo +nightly build --release --no-default-features --target wasm32-wasi
CargoBuild ==
    CheckCall("cargo", cargo_cmd(process), << wasm_file_of(process) >>, "adapt")

\* Step 3: wasm-tools component new ... --adapt wasi_snapshot_preview1.wasm
AdaptModule ==
    CheckCall("adapt", adapt_cmd(process), << adapted_wasm_file_of(process) >>, "embed")

\* Step 4: wasm-tools component embed wit --world process ... -o wasm_path
EmbedWorld ==
    CheckCall("embed", embed_cmd(process), << wasm_path_of(process) >>, "done")

NextCompile ==
    \/ Staleness
    \/ Chdir
    \/ StageBindings
    \/ CargoBuild
    \/ AdaptModule
    \/ EmbedWorld

(***************************************************************************)
(*   Two compile_process runs whose steps interleave (one interpreter)     *)
(***************************************************************************)
Runs == {1, 2}

\* The files a step writes, each recorded with the crate it was built from.
WriteAll(files, paths, origin) ==
    [q \in DOMAIN files \cup {paths[i] : i \in DOMAIN paths} |->
        IF \E i \in DOMAIN paths : paths[i] = q THEN origin ELSE files[q]]

\* Step 1 for process name: bindings_dir/target.wasm, the copied wit, the world file.
stage_bindings(files, name) ==
    WriteAll(files, << bindings_dir_of(name) \o <<"target.wasm">>,
                       bindings_dir_of(name) \o <<"wit">>,
                       bindings_dir_of(name) \o <<"world">> >>, name)

\* Step 2: cargo build has no path argument; it builds the crate of the
\* directory it is run in, and writes that crate's module.
crate_of(dir) == dir[Len(dir)]
cargo_build(files, dir) == WriteAll(files, << wasm_file_of(crate_of(dir)) >>, crate_of(dir))

\* Step 3 reads wasm_file and fails when it is not there.
adapt_succeeds(files, name) == wasm_file_of(name) \in DOMAIN files
adapt_module(files, name) ==
    WriteAll(files, << adapted_wasm_file_of(name) >>, files[wasm_file_of(name)])

\* Step 4 reads adapted_wasm_file and writes the final component.
embed_world(files, name) ==
    WriteAll(files, << wasm_path_of(name) >>, files[adapted_wasm_file_of(name)])

\* compile_process run alone from start to end: os.chdir(process_dir), then
\* the four steps.
compile_process(files, name) ==
    embed_world(adapt_module(cargo_build(stage_bindings(files, name),
                                         process_dir_of(name)), name), name)

\* The two compiles one after the other, as the walk of __main__ runs them.
sequential(names) == compile_process(compile_process(<<>>, names[1]), names[2])

PairRan(r, step, returncode) ==
    [run |-> r, step |-> step, cwd |-> pair_cwd, returncode |-> returncode]

IdlePair ==
    /\ pair_dirs = <<"chess", "chess_engine">>
    /\ pair_pc = [r \in Runs |-> "not started"]
    /\ pair_cwd = root_dir
    /\ pair_files = <<>>
    /\ pair_commands = <<>>

StartPair ==
    /\ pair_dirs \in {<<a, b>> : a, b \in ProcessNames}
    /\ pair_dirs[1] # pair_dirs[2]
    /\ pair_pc = [r \in Runs |-> "staleness"]
    /\ pair_cwd = root_dir
    /\ pair_files = <<>>
    /\ pair_commands = <<>>

\* src_mtime, wasm_mtime: computed (the sources exist), not used.
PairStaleness(r) ==
    /\ pair_pc[r] = "staleness"
    /\ pair_pc' = [pair_pc EXCEPT ![r] = "chdir"]
    /\ UNCHANGED <<pair_dirs, pair_cwd, pair_files, pair_commands>>
    /\ UNCHANGED notPair

\* os.chdir(process_dir); os.makedirs(bindings_dir, exist_ok=True)
PairChdir(r) ==
    /\ pair_pc[r] = "chdir"
    /\ pair_cwd' = process_dir_of(pair_dirs[r])
    /\ pair_pc' = [pair_pc EXCEPT ![r] = "wit"]
    /\ UNCHANGED <<pair_dirs, pair_files, pair_commands>>
    /\ UNCHANGED notPair

PairStageBindings(r) ==
    /\ pair_pc[r] = "wit"
    /\ pair_files' = stage_bindings(pair_files, pair_dirs[r])
    /\ pair_commands' = Append(pair_commands, PairRan(r, "wit", 0))
    /\ pair_pc' = [pair_pc EXCEPT ![r] = "cargo"]
    /\ UNCHANGED <<pair_dirs, pair_cwd>>
    /\ UNCHANGED notPair

\* subprocess.check_call(["cargo", ...]): the child inherits the current
\* working directory of the interpreter as it is at this moment.
PairCargoBuild(r) ==
    /\ pair_pc[r] = "cargo"
    /\ pair_files' = cargo_build(pair_files, pair_cwd)
    /\ pair_commands' = Append(pair_commands, PairRan(r, "cargo", 0))
    /\ pair_pc' = [pair_pc EXCEPT ![r] = "adapt"]
    /\ UNCHANGED <<pair_dirs, pair_cwd>>
    /\ UNCHANGED notPair

PairAdaptModule(r) ==
    /\ pair_pc[r] = "adapt"
    /\ IF adapt_succeeds(pair_files, pair_dirs[r])
       THEN /\ pair_files' = adapt_module(pair_files, pair_dirs[r])
            /\ pair_commands' = Append(pair_commands, PairRan(r, "adapt", 0))
            /\ pair_pc' = [pair_pc EXCEPT ![r] = "embed"]
       ELSE /\ pair_files' = pair_files
            /\ pair_commands' = Append(pair_commands, PairRan(r, "adapt", 1))
            /\ pair_pc' = [pair_pc EXCEPT ![r] = "raised"]
    /\ UNCHANGED <<pair_dirs, pair_cwd>>
    /\ UNCHANGED notPair

PairEmbedWorld(r) ==
    /\ pair_pc[r] = "embed"
    /\ pair_files' = embed_world(pair_files, pair_dirs[r])
    /\ pair_commands' = Append(pair_commands, PairRan(r, "embed", 0))
    /\ pair_pc' = [pair_pc EXCEPT ![r] = "done"]
    /\ UNCHANGED <<pair_dirs, pair_cwd>>
    /\ UNCHANGED notPair

NextPair ==
    \E r \in Runs :
        \/ PairStaleness(r)
        \/ PairChdir(r)
        \/ PairStageBindings(r)
        \/ PairCargoBuild(r)
        \/ PairAdaptModule(r)
        \/ PairEmbedWorld(r)

(***************************************************************************)
(*      WindowsArtifact: main of scripts/build-windows-artifact.py         *)
(***************************************************************************)
\* A path is its components and whether it starts at the root.
AbsPath(parts) == [isabs |-> TRUE, parts |-> parts]
RelPath(parts) == [isabs |-> FALSE, parts |-> parts]

\* os.path.join(a, b): an absolute b discards a.
join(a, b) == IF b.isabs THEN b ELSE [isabs |-> a.isabs, parts |-> a.parts \o b.parts]

\* os.path.normpath: drops "." and resolves ".." against the component before it.
RECURSIVE normparts(_, _, _)
normparts(isabs, done, rest) ==
    IF rest = <<>> THEN done
    ELSE LET c == Head(rest)
         IN IF c = "." THEN normparts(isabs, done, Tail(rest))
            ELSE IF c # ".." THEN normparts(isabs, Append(done, c), Tail(rest))
            ELSE IF done # <<>> /\ done[Len(done)] # ".."
                 THEN normparts(isabs, SubSeq(done, 1, Len(done) - 1), Tail(rest))
            ELSE IF isabs THEN normparts(isabs, done, Tail(rest))
            ELSE normparts(isabs, Append(done, c), Tail(rest))

normpath(p) == [isabs |-> p.isabs, parts |-> normparts(p.isabs, <<>>, p.parts)]

\* os.path.abspath(p) with the working directory d.
abspath(p, d) == normpath(join(d, p))

\* How many leading components two paths share.
CommonLen(a, b) ==
    LET shared == {n \in 0..Len(a) : n <= Len(b) /\ \A i \in 1..n : a[i] = b[i]}
    IN CHOOSE n \in shared : \A m \in shared : m <= n

\* os.path.commonpath([a, b]) of two absolute paths: the longest common
\* prefix by components, never by characters.
commonpath(a, b) ==
    [isabs |-> a.isabs, parts |-> SubSeq(a.parts, 1, CommonLen(a.parts, b.parts))]

\* os.path.relpath(p, start) of two normalised absolute paths.
relpath(p, start) ==
    LET n == CommonLen(p.parts, start.parts)
    IN RelPath([i \in 1..(Len(start.parts) - n) |-> ".."]
               \o SubSeq(p.parts, n + 1, Len(p.parts)))

\* rel_path.replace(':', '_'), on the file names of the repository modelled.
contains_colon(name) == name = "notes:v1.txt"
replace_colon(name) == IF name = "notes:v1.txt" THEN "notes_v1.txt" ELSE name

\* is_excluded(path, excludes, include_files); d is the working directory
\* os.path.abspath resolves against.
is_excluded(path, excludes, include_files, d) ==
    LET abs == abspath(path, d)
    IN IF \E i \in DOMAIN include_files : include_files[i] = abs
       THEN FALSE
       ELSE \E i \in DOMAIN excludes : commonpath(abs, excludes[i]) = excludes[i]

\* repo_root: the parent of the directory of the script.
repo_root == AbsPath(<<"repo">>)

default_excludes ==
    << RelPath(<<".git">>),
       RelPath(<<"hyperdrive", "packages">>),
       RelPath(<<"target">>),
       RelPath(<<"hyperdrive", "src", "register-ui", "node_modules">>) >>

\* parse_args: the default of --output.
default_output == join(repo_root, RelPath(<<"target", "windows-artifact.zip">>))

include_files == << abspath(join(repo_root, RelPath(<<"target", "packages.zip">>)), repo_root) >>

build_script == join(repo_root, RelPath(<<"hyperdrive", "src", "register-ui", "build.sh">>))

\* ---- The command lines and the repositories the script is run on
ExcludeArgs ==
    { <<>>,
      << RelPath(<<"docs">>) >>,
      << AbsPath(<<"repo", "docs">>) >>,
      << RelPath(<<"docs", "..", "targets">>) >>,
      << RelPath(<<"target", "packages.zip">>) >>,
      << RelPath(<<"docs">>), RelPath(<<"targets">>) >> }

OutputArgs ==
    { default_output,
      RelPath(<<"artifact.zip">>),
      RelPath(<<"docs", "artifact.zip">>),
      RelPath(<<"target", "packages.zip">>),
      AbsPath(<<"repo", "target", "packages.zip">>),
      AbsPath(<<"tmp", "artifact.zip">>) }

WorkingDirs == {repo_root, join(repo_root, RelPath(<<"scripts">>))}

RepoFile(parts) == join(repo_root, RelPath(parts))

BaseFiles ==
    { RepoFile(<<"README.md">>),
      RepoFile(<<".git", "config">>),
      RepoFile(<<"scripts", "build-windows-artifact.py">>),
      RepoFile(<<"docs", "notes:v1.txt">>),
      RepoFile(<<"target", "debug", "kinode.exe">>),
      RepoFile(<<"targets", "list.txt">>) }

Disks ==
    { BaseFiles \cup b \cup z :
        b \in {{}, {build_script}},
        z \in {{}, {include_files[1]}} }

\* ---- os.walk(repo_root), top-down: the files of a directory, then its
\* subdirectories, each listing in the order the filesystem gives.
ListingNames ==
    << ".git", "README.md", "artifact.zip", "build-windows-artifact.py", "build.sh",
       "config", "debug", "docs", "hyperdrive", "kinode.exe", "list.txt",
       "notes:v1.txt", "packages.zip", "register-ui", "scripts", "src", "target",
       "targets", "windows-artifact.zip" >>

Listings == {ListingNames, [i \in DOMAIN ListingNames |-> ListingNames[Len(ListingNames) + 1 - i]]}

IsUnder(f, dir) ==
    /\ Len(f.parts) > Len(dir.parts)
    /\ SubSeq(f.parts, 1, Len(dir.parts)) = dir.parts

RECURSIVE walk_files(_, _, _)
walk_files(disk, dir, listing) ==
    LET child(n) == [isabs |-> TRUE, parts |-> Append(dir.parts, n)]
        isfile(n) == child(n) \in disk
        issubdir(n) == \E f \in disk : IsUnder(f, child(n))
        files == SelectSeq(listing, isfile)
        dirs == SelectSeq(listing, issubdir)
        RECURSIVE below(_)
        below(k) == IF k > Len(dirs) THEN <<>>
                    ELSE walk_files(disk, child(dirs[k]), listing) \o below(k + 1)
    IN [i \in DOMAIN files |-> child(files[i])] \o below(1)

\* One entry of the archive: zipf.write(file_path, rel_path).
ZipWrite(file_path, rel_path) == [file_path |-> file_path, arcname |-> rel_path]

WaLine(text, rel_path) == [text |-> text, path |-> rel_path]

IdleArtifact ==
    /\ wa_args = [exclude |-> <<>>, output |-> default_output]
    /\ wa_cwd = repo_root
    /\ wa_disk = {}
    /\ wa_pc = "idle"
    /\ wa_excludes = <<>>
    /\ wa_walk = <<>>
    /\ wa_zipf = <<>>
    /\ wa_stdout = <<>>
    /\ wa_exit = Null

\* The script is started: parse_args (lines 19-33, 41).
StartArtifact ==
    /\ wa_args \in [exclude : ExcludeArgs, output : OutputArgs]
    /\ wa_cwd \in WorkingDirs
    /\ wa_disk \in Disks
    /\ wa_pc = "excludes"
    /\ wa_excludes = <<>>
    /\ wa_walk = <<>>
    /\ wa_zipf = <<>>
    /\ wa_stdout = <<>>
    /\ wa_exit = Null

\* Lines 43-57: excludes made absolute under repo_root.
ComputeExcludes ==
    /\ wa_pc = "excludes"
    /\ LET given == default_excludes \o wa_args.exclude
       IN wa_excludes' = [i \in DOMAIN given |-> abspath(join(repo_root, given[i]), wa_cwd)]
    /\ wa_pc' = "build_script"
    /\ UNCHANGED <<wa_args, wa_cwd, wa_disk, wa_walk, wa_zipf, wa_stdout, wa_exit>>
    /\ UNCHANGED notArtifact

\* Lines 60-65: no build script, sys.exit(1).
BuildScriptNotFound ==
    /\ wa_pc = "build_script"
    /\ build_script \notin wa_disk
    /\ wa_stdout' = Append(wa_stdout, WaLine("Build script not found at", build_script))
    /\ wa_exit' = Some("exit 1")
    /\ wa_pc' = "done"
    /\ UNCHANGED <<wa_args, wa_cwd, wa_disk, wa_excludes, wa_walk, wa_zipf>>
    /\ UNCHANGED notArtifact

\* Line 68: check_call of ./build.sh.
RunBuildScript ==
    /\ wa_pc = "build_script"
    /\ build_script \in wa_disk
    /\ \E returncode \in ReturnCodes :
         IF returncode = 0
         THEN wa_pc' = "cargo" /\ UNCHANGED wa_exit
         ELSE wa_pc' = "done" /\ wa_exit' = Some("CalledProcessError")
    /\ UNCHANGED <<wa_args, wa_cwd, wa_disk, wa_excludes, wa_walk, wa_zipf, wa_stdout>>
    /\ UNCHANGED notArtifact

\* Line 71: check_call of cargo build -p build-packages.
CargoBuildPackages ==
    /\ wa_pc = "cargo"
    /\ \E returncode \in ReturnCodes :
         IF returncode = 0
         THEN wa_pc' = "open" /\ UNCHANGED wa_exit
         ELSE wa_pc' = "done" /\ wa_exit' = Some("CalledProcessError")
    /\ UNCHANGED <<wa_args, wa_cwd, wa_disk, wa_excludes, wa_walk, wa_zipf, wa_stdout>>
    /\ UNCHANGED notArtifact

\* Lines 74-84: the output path is resolved against the working directory,
\* appended to excludes, the archive is created on disk, and os.walk starts.
OpenZip ==
    /\ wa_pc = "open"
    /\ LET output_zip_abs == abspath(wa_args.output, wa_cwd)
       IN /\ wa_excludes' = Append(wa_excludes, output_zip_abs)
          /\ wa_disk' = wa_disk \cup {output_zip_abs}
          /\ \E listing \in Listings :
                wa_walk' = walk_files(wa_disk \cup {output_zip_abs}, repo_root, listing)
    /\ wa_pc' = "walk"
    /\ UNCHANGED <<wa_args, wa_cwd, wa_zipf, wa_stdout, wa_exit>>
    /\ UNCHANGED notArtifact

\* Lines 85-88: the next file is excluded.
SkipExcluded ==
    /\ wa_pc = "walk"
    /\ wa_walk # <<>>
    /\ is_excluded(Head(wa_walk), wa_excludes, include_files, wa_cwd)
    /\ wa_walk' = Tail(wa_walk)
    /\ UNCHANGED <<wa_args, wa_cwd, wa_disk, wa_pc, wa_excludes, wa_zipf, wa_stdout, wa_exit>>
    /\ UNCHANGED notArtifact

\* Lines 85-94: the next file is written under its path relative to repo_root.
ZipfWrite ==
    /\ wa_pc = "walk"
    /\ wa_walk # <<>>
    /\ ~is_excluded(Head(wa_walk), wa_excludes, include_files, wa_cwd)
    /\ LET file_path == Head(wa_walk)
           rel_path == relpath(file_path, repo_root)
           replaced == RelPath([i \in DOMAIN rel_path.parts |-> replace_colon(rel_path.parts[i])])
       IN IF \E i \in DOMAIN rel_path.parts : contains_colon(rel_path.parts[i])
          THEN /\ wa_stdout' = Append(wa_stdout, WaLine("Unexpected : in filename; replacing with _ in zip file", replaced))
               /\ wa_zipf' = Append(wa_zipf, ZipWrite(file_path, replaced))
          ELSE /\ wa_zipf' = Append(wa_zipf, ZipWrite(file_path, rel_path))
               /\ UNCHANGED wa_stdout
    /\ wa_walk' = Tail(wa_walk)
    /\ UNCHANGED <<wa_args, wa_cwd, wa_disk, wa_pc, wa_excludes, wa_exit>>
    /\ UNCHANGED notArtifact

\* Line 83: the with block is left and the archive closed.
CloseZip ==
    /\ wa_pc = "walk"
    /\ wa_walk = <<>>
    /\ wa_pc' = "done"
    /\ wa_exit' = Some("ok")
    /\ UNCHANGED <<wa_args, wa_cwd, wa_disk, wa_excludes, wa_walk, wa_zipf, wa_stdout>>
    /\ UNCHANGED notArtifact

NextArtifact ==
    \/ ComputeExcludes
    \/ BuildScriptNotFound
    \/ RunBuildScript
    \/ CargoBuildPackages
    \/ OpenZip
    \/ SkipExcluded
    \/ ZipfWrite
    \/ CloseZip

(***************************************************************************)
(*                            Specifications                               *)
(***************************************************************************)
InitInstall == StartInstall /\ IdleZip /\ IdleMain /\ IdleCompile /\ IdlePair /\ IdleArtifact
SpecInstall == InitInstall /\ [][NextInstall]_vars

InitZip == StartZip /\ IdleInstall /\ IdleMain /\ IdleCompile /\ IdlePair /\ IdleArtifact
SpecZip == InitZip /\ [][NextZip]_vars

InitMain == StartMain /\ IdleInstall /\ IdleZip /\ IdleCompile /\ IdlePair /\ IdleArtifact
SpecMain == InitMain /\ [][NextMain]_vars

InitCompile == StartCompile /\ IdleInstall /\ IdleZip /\ IdleMain /\ IdlePair /\ IdleArtifact
SpecCompile == InitCompile /\ [][NextCompile]_vars

InitPair == StartPair /\ IdleInstall /\ IdleZip /\ IdleMain /\ IdleCompile /\ IdleArtifact
SpecPair == InitPair /\ [][NextPair]_vars

InitArtifact ==
    StartArtifact /\ IdleInstall /\ IdleZip /\ IdleMain /\ IdleCompile /\ IdlePair
SpecArtifact == InitArtifact /\ [][NextArtifact]_vars
SpecInstallFair == SpecInstall /\ WF_vars(NextInstall)

\* ---- Archives: their entries

Entries(archive) == {archive[i] : i \in DOMAIN archive}
IsDirEntry(e) == e.filename # <<>> /\ e.filename[Len(e.filename)] = ""
EntryPath(e) == IF IsDirEntry(e) THEN SubSeq(e.filename, 1, Len(e.filename) - 1) ELSE e.filename

\* ---- Properties of InstallClient

IsInstall(r) == r.body.ipc.command = "Install"
IsNewPackage(r) == r.body.ipc.command \in {"New", "NewPackage"}
FailureTexts == {"Failed to send new package request", "Failed to send install package request"}
Printed(text) == \E i \in DOMAIN stdout : stdout[i].text = text

\* C1: an Install request is on the wire only if the NewPackage response had
\* status 200; a run whose NewPackage response was not 200 ends in failure
\* (non-zero exit code) without any Install request.
C1_InstallOnlyAfterUpload200 ==
    /\ \A i \in DOMAIN requests : IsInstall(requests[i]) => res = HTTP_OK
    /\ (ic_pc = "exited" /\ res \notin {0, HTTP_OK}) =>
          /\ exit_code = Some(1)
          /\ \A i \in DOMAIN requests : ~IsInstall(requests[i])

\* C2: success (the success line, exit code 0) is reported only when both
\* responses had status 200; any other finished run exits non-zero and prints
\* no success line.
C2_SuccessOnlyAfterBoth200 ==
    /\ (exit_code = Some(0) \/ Printed("Successfully installed package")) =>
          (res = HTTP_OK /\ resp = HTTP_OK)
    /\ (ic_pc = "exited" /\ ~(res = HTTP_OK /\ resp = HTTP_OK)) =>
          (exit_code # Null /\ exit_code # Some(0))

\* The state part of C3: connections are used one at a time, one per request,
\* and a run answered 200 and 200 has sent exactly NewPackage then Install and
\* exited with code 0 after printing the success line naming the package.
C3_Discipline ==
    /\ \A i \in DOMAIN conns : i < Len(conns) => conns[i] = "closed"
    /\ Len(requests) <= Len(conns)
    /\ Len(requests) <= 2
    /\ (ic_pc = "exited" /\ res = HTTP_OK /\ resp = HTTP_OK) =>
          /\ Len(requests) = 2
          /\ IsNewPackage(requests[1])
          /\ IsInstall(requests[2])
          /\ Len(conns) = 2
          /\ \A i \in DOMAIN conns : conns[i] = "closed"
          /\ exit_code = Some(0)
          /\ stdout[Len(stdout)] = success_line(<<PACKAGE, PUBLISHER>>)

\* C3: when the endpoint answers 200 to NewPackage and 200 to Install, the
\* client issues exactly one NewPackage request then exactly one Install
\* request, each on its own connection closed before the next is opened, and
\* then terminates with exit code 0 and the confirmation naming the package.
C3_TwoRequestsThenSuccess ==
    /\ []C3_Discipline
    /\ ((res = HTTP_OK /\ resp = HTTP_OK) ~> (ic_pc = "exited" /\ exit_code = Some(0)))

C3_Witness ==
    /\ ic_pc = "exited"
    /\ res = HTTP_OK /\ resp = HTTP_OK
    /\ exit_code = Some(0)
    /\ Len(requests) = 2

\* C4: every failure line printed for a non-200 response carries the
\* (package, publisher) pair, names the phase, and carries the observed status.
C4_FailureReportComplete ==
    \A i \in DOMAIN stdout :
        stdout[i].text \in FailureTexts =>
            /\ stdout[i].pair = <<PACKAGE, PUBLISHER>>
            /\ stdout[i].status =
                  Some(IF stdout[i].text = "Failed to send new package request" THEN res ELSE resp)

\* The file entries of the archive the InstallClient built, as paths.
UploadedFiles == {e.filename : e \in {x \in Entries(target_zip[1]) : ~IsDirEntry(x)}}
FilesOf(t) == {q \in DOMAIN t : t[q].kind = "file"}

\* The archive has one file entry per file of the package directory (2 for
\* metadata.json next to chess.wasm), each with the file's bytes.
C18_OneEntryPerFile ==
    target_zip # Null =>
        /\ UploadedFiles = FilesOf(pkg_dir_tree)
        /\ Cardinality({i \in DOMAIN target_zip[1] : ~IsDirEntry(target_zip[1][i])})
              = Cardinality(FilesOf(pkg_dir_tree))
        /\ \A e \in Entries(target_zip[1]) :
              ~IsDirEntry(e) => e.data = pkg_dir_tree[e.filename].data
        /\ FilesOf(pkg_dir_tree) = {<<"metadata.json">>, <<"chess.wasm">>} =>
              Cardinality(UploadedFiles) = 2

\* C18: the archive the InstallClient builds and uploads in the NewPackage
\* request has one file entry per file of the package directory (for chess:
\* metadata.json and chess.wasm, exactly 2 file entries) and every entry is
\* timestamped at the one fixed normalization date/time.
C18_UploadNormalized ==
    /\ C18_OneEntryPerFile
    /\ target_zip # Null =>
          \A e \in Entries(target_zip[1]) : e.date_time = <<2023, 6, 19, 0, 0, 0>>
    /\ \A i \in DOMAIN requests :
          IsNewPackage(requests[i]) =>
              requests[i].body.data = Some(b64encode(zip_bytes(target_zip[1])))

\* The bytes a base64 text stands for: four characters make three bytes, less
\* one byte for each '=' at the end.
b64decode(text) ==
    LET groups == Len(text) \div 4
        pads == Cardinality({k \in DOMAIN text : text[k] = b64_pad})
        c(k) == IF text[k] = b64_pad THEN 0 ELSE text[k]
    IN [m \in 1..(3 * groups - pads) |->
          LET g == (m - 1) \div 3
              j == (m - 1) % 3
          IN CASE j = 0 -> c(4 * g + 1) * 4 + c(4 * g + 2) \div 16
               [] j = 1 -> (c(4 * g + 2) % 16) * 16 + c(4 * g + 3) \div 4
               [] j = 2 -> (c(4 * g + 3) % 4) * 64 + c(4 * g + 4)]

\* C19: every request body has inherit=false and expects_response, metadata
\* and context all null; the first request of a run has mime 'application/zip'
\* and data equal to the base64 encoding of the package archive bytes, the
\* second has mime null and data null; both requests of one run name the same
\* package identity and the same target process.
C19_RequestEnvelope ==
    /\ Len(requests) <= 2
    /\ \A i \in DOMAIN requests :
          /\ requests[i].body.inherit = FALSE
          /\ requests[i].body.expects_response = Null
          /\ requests[i].body.metadata = Null
          /\ requests[i].body.context = Null
    /\ Len(requests) >= 1 =>
          /\ requests[1].body.mime = Some("application/zip")
          /\ requests[1].body.data # Null
          /\ Len(requests[1].body.data[1]) % 4 = 0
          /\ \A k \in DOMAIN requests[1].body.data[1] :
                requests[1].body.data[1][k] \in 0..b64_pad
          /\ b64decode(requests[1].body.data[1]) = zip_bytes(target_zip[1])
    /\ Len(requests) >= 2 =>
          /\ requests[2].body.mime = Null
          /\ requests[2].body.data = Null
          /\ requests[2].body.ipc.package = requests[1].body.ipc.package
          /\ requests[2].body.ipc.package = <<PACKAGE, PUBLISHER>>
          /\ requests[2].body.process = requests[1].body.process
          /\ requests[2].body.node = requests[1].body.node

C19_Witness ==
    /\ ic_pc = "exited"
    /\ Len(requests) = 2
    /\ NODE = Null
    /\ requests[1].body.data[1][Len(requests[1].body.data[1])] = b64_pad
    /\ Len(target_zip[1]) = 4

\* A descriptor that exists, parses and has both fields.
IsValidDescriptor(md) == load_metadata_error(md) = Null

\* The InstallClient half of C11: with an absent, unparsable or incomplete
\* descriptor the script builds no archive and sends no request.
C11_InstallClient ==
    ~IsValidDescriptor(metadata) =>
        /\ target_zip = Null
        /\ encoded_zip_file = Null
        /\ conns = <<>>
        /\ requests = <<>>
        /\ ic_pc = "exited" => exit_code = Some(1)

\* The Orchestrator half of C11: no build command is run and no archive is
\* produced for a package whose descriptor is absent, unparsable or incomplete.
C11_Orchestrator ==
    /\ \A i \in DOMAIN built : IsValidDescriptor(metadata_files[built[i].name])
    /\ \A i \in DOMAIN results : IsValidDescriptor(metadata_files[results[i][1][3]])

\* C11: a metadata descriptor that is absent, unparsable or lacks 'package' or
\* 'publisher' makes the package's processing fail before any step is taken for
\* it: the Orchestrator runs no build command and produces no archive for it,
\* and the InstallClient builds no archive and sends no request.
C11_MetadataRequiredBeforeAnyStep == C11_Orchestrator /\ C11_InstallClient

\* ---- Properties of zip_directory

\* The permission bits (0o7777) of a mode.
PermBits(mode) == mode % 4096

\* What an extractor creates from an archive: one node per entry, a directory
\* for a name ending in "/", with the mode held in the upper half of external_attr.
Extracted(archive) ==
    { [ path |-> EntryPath(e),
        kind |-> IF IsDirEntry(e) THEN "dir" ELSE "file",
        mode |-> e.external_attr.hi,
        dirflag |-> e.external_attr.lo = 16,
        data |-> e.data ] : e \in Entries(archive) }

\* C5: two archives built from the same tree (same paths, contents and modes)
\* are identical, whatever the modification times and the scan order were.
C5_Deterministic == zcalls >= 2 => zip_contents = prev_contents

\* Two archives of the same tree hold the same entries; only their order may differ.
C5_SameEntriesUpToOrder ==
    zcalls >= 2 => /\ Entries(zip_contents) = Entries(prev_contents)
                   /\ Len(zip_contents) = Len(prev_contents)

\* C6: every entry of every archive, directory or file, carries the date/time
\* 2023-06-19 00:00:00, whatever the filesystem's modification times.
C6_FixedDateTime ==
    \A e \in Entries(zip_contents) \cup Entries(prev_contents) :
        e.date_time = <<2023, 6, 19, 0, 0, 0>>

C6_Witness ==
    /\ zcalls = MaxZipCalls
    /\ fs_mtime # <<2023, 6, 19, 0, 0, 0>>
    /\ \E e \in Entries(zip_contents) : IsDirEntry(e)
    /\ \E e \in Entries(zip_contents) : ~IsDirEntry(e)

IsProperPrefix(p, q) == Len(p) < Len(q) /\ SubSeq(q, 1, Len(p)) = p
\* In an archive every directory entry comes before every entry located
\* inside that directory, and every entry below the top level has its
\* directory's entry before it.
DirsFirst(archive) ==
    /\ \A i, j \in DOMAIN archive :
          (IsDirEntry(archive[i]) /\ IsProperPrefix(EntryPath(archive[i]), EntryPath(archive[j])))
              => i < j
    /\ \A j \in DOMAIN archive :
          Len(EntryPath(archive[j])) > 1 =>
              \E i \in 1..(j - 1) :
                  /\ IsDirEntry(archive[i])
                  /\ EntryPath(archive[i]) = Parent(EntryPath(archive[j]))

\* C15: in every archive zip_directory produces, each directory entry
\* precedes every entry (file or sub-directory) located inside that directory,
\* at every nesting depth.
C15_DirectoriesBeforeContents == DirsFirst(zip_contents) /\ DirsFirst(prev_contents)

C15_Witness ==
    /\ zcalls >= 1
    /\ Len(zip_contents) = MaxNodes
    /\ \E j \in DOMAIN zip_contents :
          /\ ~IsDirEntry(zip_contents[j])
          /\ Len(EntryPath(zip_contents[j])) >= 3
    /\ \E i \in DOMAIN zip_contents :
          IsDirEntry(zip_contents[i]) /\ Len(EntryPath(zip_contents[i])) = 2

\* ---- Properties of main (build-package.py)

\* The entry lines of a table, in order.
EntryLines(table) == SelectSeq(table, LAMBDA l : l.zip_filename # "")
\* The packages root's immediate subdirectories that have a 'pkg' subdirectory.
Discovered == {n \in DOMAIN packages_dir : packages_dir[n] = "dir with pkg"}
TableFile == target_packages_dir.files["bootstrapped_processes.rs"]

C9_BuildFailureAbortsBatch ==
    \A i \in DOMAIN built :
        built[i].returncode # 0 =>
            /\ i = Len(built)
            /\ main_pc = "raised"
            /\ raised = <<[message |-> "Failed to build package at",
                           about |-> <<"kinode", "packages", built[i].name>>]>>
            /\ written = <<>>
            /\ packages_zip = Null
            /\ "bootstrapped_processes.rs" \notin DOMAIN target_packages_dir.files
            /\ Len(results) = i - 1

C9_Witness ==
    /\ Len(built) = 2
    /\ built[2].returncode # 0
    /\ Cardinality(Discovered) = 3
    /\ main_pc = "raised"

\* Whether a path a table entry references exists on disk.
PathExists(path) ==
    IF path[1] = "kinode"
    THEN /\ path[3] \in DOMAIN metadata_files
         /\ metadata_files[path[3]].exists
    ELSE path[3] \in DOMAIN target_packages_dir.files
HasWritten(path) == \E i \in DOMAIN written : written[i] = path

\* C12: when the bootstrap table is generated every metadata path and every
\* archive path an entry references exists on disk; if one is missing the
\* generation fails with an error naming that path, and neither the table
\* file nor the aggregate archive is written.
C12_ManifestIntegrity ==
    \A i \in DOMAIN bootstrapped_processes :
        LET l == bootstrapped_processes[i]
        IN (l.zip_filename # "" /\ ~(PathExists(l.metadata_path) /\ PathExists(l.zip_path))) =>
              /\ ~HasWritten(<<"target", "packages", "bootstrapped_processes.rs">>)
              /\ packages_zip = Null
              /\ main_pc # "done"
              /\ main_pc = "raised" =>
                    raised[1].about \in {l.metadata_path, l.zip_path}


\* The frontends main warned about (build script not found), in order.
Warned ==
    LET w == SelectSeq(main_stdout, LAMBDA l : l.text = "Build script not found for frontend")
    IN [i \in DOMAIN w |-> w[i].frontend]
\* The frontends whose build script was invoked, in order.
Invoked == [i \in DOMAIN frontend_runs |-> frontend_runs[i].frontend]
SeqRange(q) == {q[i] : i \in DOMAIN q}

\* C13: for each known frontend path a missing build script only prints a
\* warning and the run continues with the next frontend; an existing build
\* script that exits non-zero aborts the entire run before any package is
\* built or archived; with the skip-frontend flag no frontend build script is
\* invoked at all.
C13_FrontendStep ==
    /\ skip_build_frontend => (frontend_runs = <<>> /\ Warned = <<>>)
    \* every frontend the loop has passed was either warned about or invoked,
    \* never both, and a warning never ends the run
    /\ (~skip_build_frontend /\ main_pc # "not started") =>
          LET passed == IF main_pc = "frontends" THEN idx - 1
                        ELSE IF main_pc = "raised" /\ built = <<>> /\ idx <= Len(core_frontends)
                                  /\ raised[1].message = "Failed to build frontend"
                             THEN idx
                             ELSE Len(core_frontends)
          IN /\ SeqRange(Warned) \cup SeqRange(Invoked)
                   = {core_frontends[k] : k \in 1..passed}
             /\ SeqRange(Warned) \cap SeqRange(Invoked) = {}
             /\ Len(Warned) + Len(Invoked) = passed
    /\ \A i \in DOMAIN frontend_runs :
          frontend_runs[i].returncode # 0 =>
              /\ i = Len(frontend_runs)
              /\ main_pc = "raised"
              /\ raised = Some(Exception("Failed to build frontend",
                                         <<frontend_runs[i].frontend>>))
              /\ built = <<>>
              /\ results = <<>>
              /\ written = <<>>
              /\ packages_zip = Null
    /\ (main_pc = "raised" /\ raised[1].message = "Failed to build frontend") =>
          /\ frontend_runs # <<>>
          /\ frontend_runs[Len(frontend_runs)].returncode # 0

C13_Witness ==
    /\ main_pc = "raised"
    /\ Warned = <<"src/register-ui">>
    /\ Len(frontend_runs) = 2
    /\ frontend_runs[1].returncode = 0
    /\ frontend_runs[2].returncode # 0
    /\ Cardinality(Discovered) >= 1


\* C14: packages.zip is written last, after every per-package archive and the
\* table file have been written to the output directory, and it contains an
\* entry for each per-package archive of the run and an entry for the
\* generated table file.
C14_AggregateWrittenLast ==
    /\ \A i \in DOMAIN written :
          written[i] = <<"target", "packages.zip">> =>
              /\ i = Len(written)
              /\ i = Len(results) + 2
              /\ written[i - 1] = <<"target", "packages", "bootstrapped_processes.rs">>
              /\ \A k \in DOMAIN results :
                    written[k] = <<"target", "packages", results[k][2]>>
    /\ (packages_zip # Null) <=> HasWritten(<<"target", "packages.zip">>)
    /\ main_pc = "done" => packages_zip # Null
    /\ packages_zip # Null =>
          /\ \A k \in DOMAIN results :
                \E e \in Entries(packages_zip[1]) :
                    e.filename = <<results[k][2]>> /\ e.data = results[k][3]
          /\ \E e \in Entries(packages_zip[1]) :
                /\ e.filename = <<"bootstrapped_processes.rs">>
                /\ e.data = bootstrapped_processes
                /\ Len(e.data) = Len(results) + 2

C14_Witness ==
    /\ main_pc = "done"
    /\ Len(results) = 2
    /\ Len(written) = 4
    /\ Len(packages_zip[1]) >= 3


\* The per-package archives an aggregate archive holds, by file name.
AggregateArchives(aggregate) ==
    {e.filename[1] : e \in {x \in Entries(aggregate) :
                                x.filename # <<"bootstrapped_processes.rs">>}}

\* C20: the aggregate packages.zip of a successful run contains only
\* per-package archives of packages discovered in that run: an archive an
\* earlier run left in the output directory for a package no longer discovered
\* never appears in it, so its set of package archives equals the set of
\* entries of the bootstrap table it ships with.
C20_AggregateMatchesTable ==
    main_pc = "done" =>
        LET lines == EntryLines(TableFile)
        IN /\ AggregateArchives(packages_zip[1]) = {lines[i].zip_filename : i \in DOMAIN lines}
           /\ AggregateArchives(packages_zip[1]) = {zip_filename_of(n) : n \in Discovered}

\* What does hold: the aggregate holds every archive of the table, and beyond
\* them only files that were in the output directory before the run.
C20_AggregateHoldsTableAndLeftovers ==
    main_pc = "done" =>
        LET lines == EntryLines(TableFile)
        IN /\ {lines[i].zip_filename : i \in DOMAIN lines} \subseteq AggregateArchives(packages_zip[1])
           /\ AggregateArchives(packages_zip[1]) \ {lines[i].zip_filename : i \in DOMAIN lines}
                 \subseteq {"chess.zip"}

\* ---- Properties of compile_process

StepOrder == <<"wit", "cargo", "adapt", "embed">>
\* The process name occurs in the command the exception carries.
NamesProcess(exception) ==
    \E i \in DOMAIN exception.cmd : \E j \in DOMAIN exception.cmd[i] :
        exception.cmd[i][j] = process
\* The command the exception carries is the one of the step that failed.
NamesStep(exception) ==
    /\ Len(exception.cmd) >= 3
    /\ <<exception.cmd[1][1], exception.cmd[3][1]>>
          \in {<<"wasm-tools", "wit">>, <<"cargo", "build">>,
               <<"wasm-tools", "new">>, <<"wasm-tools", "embed">>}

\* The steps run in order, each after the success of the one before; the
\* final component is written by step 4 alone, after steps 1-3 succeeded; a
\* failed step is the last step run.
C10_OrderAndFinalWrite ==
    /\ Len(commands) <= 4
    /\ \A i \in DOMAIN commands :
          /\ commands[i].step = StepOrder[i]
          /\ commands[i].returncode # 0 => i = Len(commands) /\ cp_pc = "raised"
    /\ \A k \in DOMAIN outputs :
          outputs[k].path = <<"root", "pkg", process, ".wasm">> =>
              /\ outputs[k].step = "embed"
              /\ Len(commands) = 4
              /\ \A i \in DOMAIN commands : commands[i].returncode = 0

\* What the exceptions do carry: every failed step's error names the step, and
\* names the process for every step but the cargo build.
C10_ErrorsNameStep ==
    \A i \in DOMAIN commands :
        commands[i].returncode # 0 =>
            /\ cp_error = Some(CalledProcessError(commands[i].returncode, commands[i].cmd))
            /\ NamesStep(cp_error[1])
            /\ NamesProcess(cp_error[1]) <=> commands[i].step # "cargo"

\* C10: the four steps run strictly in order; the final component is written
\* only by step 4 and only after steps 1-3 succeeded; when a step fails no
\* later step runs and the error identifies the process name and the step.
C10_StepsInOrderAndErrorsIdentified ==
    /\ C10_OrderAndFinalWrite
    /\ \A i \in DOMAIN commands :
          commands[i].returncode # 0 =>
              /\ cp_error # Null
              /\ NamesStep(cp_error[1])
              /\ NamesProcess(cp_error[1])

\* A finished invocation attempted every pipeline step: each of the four was
\* run, unless a step before it had failed.
AttemptedAllSteps ==
    \A k \in DOMAIN StepOrder :
        \/ k <= Len(commands) /\ commands[k].step = StepOrder[k]
        \/ \E i \in 1..(k - 1) : i <= Len(commands) /\ commands[i].returncode # 0

\* C17: the staleness computation is never acted upon: for every state of the
\* process directory (final component absent, older than the sources, or newer
\* than every source file) an invocation of compile_process attempts all four
\* pipeline steps; computing the modification times never changes which steps run.
C17_StalenessNeverActedUpon ==
    cp_pc \in {"done", "raised"} => AttemptedAllSteps

\* Where the sources exist the component's state changes nothing: the
\* invocation attempts all four steps whether the component is absent, older
\* or newer.
C17_WithSourcesAllSteps ==
    (src_files /\ cp_pc \in {"done", "raised"}) => AttemptedAllSteps

\* ---- Properties of two interleaved compile_process runs

\* C16: for two different process directories, any interleaving of the steps
\* of their two compile_process runs produces the same staged bindings,
\* intermediate artifacts and final components as running the two compiles one
\* after the other; no step of one compile depends on the current working
\* directory the other compile sets.
C16_CompilesIndependent ==
    /\ (\A r \in Runs : pair_pc[r] \in {"done", "raised"}) =>
          /\ \A r \in Runs : pair_pc[r] = "done"
          /\ pair_files = sequential(pair_dirs)
    /\ \A i \in DOMAIN pair_commands :
          pair_commands[i].step = "cargo" =>
              pair_commands[i].cwd = process_dir_of(pair_dirs[pair_commands[i].run])

\* Run one after the other, the two compiles both end with every file built
\* from its own crate.
C16_SequentialRunReached ==
    /\ \A r \in Runs : pair_pc[r] = "done"
    /\ pair_files = sequential(pair_dirs)
    /\ Cardinality(DOMAIN pair_files) = 12
    /\ \A q \in DOMAIN pair_files : \E i \in DOMAIN q : q[i] = pair_files[q]

\* ---- Properties of the Windows artifact (build-windows-artifact.py)
\* The files the archive has an entry for.
ArtifactFiles == {wa_zipf[i].file_path : i \in DOMAIN wa_zipf}

\* The output file, and the directories excluded by default and by --exclude
\* (relative to the repository root), as absolute paths.
OutputZip == abspath(wa_args.output, wa_cwd)

ExcludedDirs ==
    {abspath(join(repo_root, x), wa_cwd) :
        x \in {default_excludes[i] : i \in DOMAIN default_excludes}
              \cup {wa_args.exclude[i] : i \in DOMAIN wa_args.exclude}}

PackagesZip == join(repo_root, RelPath(<<"target", "packages.zip">>))

\* The archive has no entry for the output file.
C21_NoSelfEntry == OutputZip \notin ArtifactFiles

\* No file at or under an excluded directory is in the archive, except
\* target/packages.zip.
C21_ExcludedStayOut ==
    \A f \in ArtifactFiles :
        (\E d \in ExcludedDirs : f = d \/ IsUnder(f, d)) => f = PackagesZip

\* target/packages.zip is in every finished archive when it exists.
C21_PackagesZipIncluded ==
    (wa_exit = Some("ok") /\ PackagesZip \in wa_disk) => PackagesZip \in ArtifactFiles

\* C21: for every value of --output and every list of --exclude directories,
\* the Windows artifact never contains an entry for the output zip file
\* itself, and never contains a file located under an excluded directory
\* except target/packages.zip, which is always included when it exists.
C21_ArtifactContents ==
    /\ C21_NoSelfEntry
    /\ C21_ExcludedStayOut
    /\ C21_PackagesZipIncluded

\* The output file is named on the command line as target/packages.zip and
\* an archive was finished.
C21_OutputIsPackagesZip == wa_exit = Some("ok") /\ OutputZip = PackagesZip

\* Whenever the output file is not target/packages.zip, the archive has no
\* entry for it.
C21_NoSelfEntryElsewhere == OutputZip # PackagesZip => C21_NoSelfEntry
====
